---- MODULE Spec2Model ----
(***************************************************************************)
(* Model of the money-muling detection engine (src/app.py,                 *)
(* class ForensicsEngine).                                                 *)
(*                                                                         *)
(* Account ids are strings in the program; here an account is a natural    *)
(* number and the numeric order stands for the string order used by        *)
(* min(cyc).  Amounts are whole currency units, timestamps are seconds.    *)
(* Scores are floats in the program; here they are integers counting       *)
(* thousandths (55.0 is 55000), divisions round down.                      *)
(***************************************************************************)
EXTENDS Integers, Sequences, FiniteSets, TLC

(***************************************************************************)
(* Bounds of the explored inputs.                                          *)
(***************************************************************************)
\* number of candidate rows of RowPool a core input may draw from
PoolSize == 13
\* largest number of core rows in one input
MaxRows == 6
\* candidate rows / row count of the inputs that also carry a crowd
CrowdPoolSize == 4
CrowdMaxRows == 3
\* size of the larger crowd (the smaller one has FAN_MIN members)
MaxCrowd == 20
\* orders and rotations in which the library may yield the cycles
MaxRotations == 3
MaxRot == 2
\* longest sequence given to _canonicalize_cycle in SpecCanon
MaxCanonLen == 4
\* candidate rows / row count of each input of two concurrent analyses
PairPoolSize == 4
PairMaxRows == 3
\* the while loops of the searches run for at most 2^(LoopFuel + 1) - 1 iterations
LoopFuel == 12

(***************************************************************************)
(* Program constants.                                                      *)
(***************************************************************************)
HUB_MIN_COUNTERPARTIES == 20
HUB_MAX_OPPOSITE == 3
PAYROLL_MIN_EDGES == 10
FAN_MIN == 10
FAN_CAP == 50
MIN_RING_MEMBERS == 3
MIN_SURVIVORS == 2
MIN_CYCLE_LEN == 3
MAX_CYCLE_LEN == 5
MAX_CHAIN_LEN == 7
MIN_CHAIN_LEN == 4
MIN_TEMPORAL == 3
WINDOW_HOURS == 72
MIN_VELOCITY_TX == 5
MAX_TX_PER_HOUR == 5
VELOCITY_BONUS == 15
SCORE_CAP == 100
SHELL_MIN_TX == 2
SHELL_MAX_TX == 3
RING_ID_WIDTH == 3
\* thousandths per unit of score
Milli == 10 * 10 * 10

(***************************************************************************)
(* Sequences and sets.                                                     *)
(***************************************************************************)
Range(s) == {s[i] : i \in DOMAIN s}

Contains(s, x) == \E i \in DOMAIN s : s[i] = x

IndexOf(s, x) == CHOOSE i \in DOMAIN s : s[i] = x /\ \A j \in 1..(i - 1) : s[j] # x

Reverse(s) == [i \in 1..Len(s) |-> s[Len(s) + 1 - i]]

MinOf(S) == CHOOSE x \in S : \A y \in S : x <= y

MaxOf(S) == CHOOSE x \in S : \A y \in S : y <= x

Min2(a, b) == IF a <= b THEN a ELSE b

Max2(a, b) == IF a >= b THEN a ELSE b

\* the elements of a set of numbers in ascending order
SortedSeq(S) ==
    [i \in 1..Cardinality(S) |-> CHOOSE x \in S : Cardinality({y \in S : y < x}) = i - 1]

RECURSIVE SumRange(_, _, _)
SumRange(s, lo, hi) ==
    IF lo > hi THEN 0
    ELSE IF lo = hi THEN s[lo]
    ELSE SumRange(s, lo, (lo + hi) \div 2) + SumRange(s, (lo + hi) \div 2 + 1, hi)

SumSeq(s) == SumRange(s, 1, Len(s))

RECURSIVE ConcatRange(_, _, _)
ConcatRange(ss, lo, hi) ==
    IF lo > hi THEN <<>>
    ELSE IF lo = hi THEN ss[lo]
    ELSE ConcatRange(ss, lo, (lo + hi) \div 2) \o ConcatRange(ss, (lo + hi) \div 2 + 1, hi)

\* the concatenation of a sequence of sequences
Concat(ss) == ConcatRange(ss, 1, Len(ss))

\* for x in s: st = Step(st, x).  The loop is unfolded by halves and each
\* half is evaluated to a value before the next starts, which keeps the
\* nesting of the evaluation logarithmic in the length of s.
RECURSIVE FoldRange(_, _, _, _, _)
FoldRange(Step(_, _), st, s, lo, hi) ==
    IF lo > hi THEN st
    ELSE IF lo = hi THEN Step(st, s[lo])
    ELSE CHOOSE result \in
            {FoldRange(Step, half, s, (lo + hi) \div 2 + 1, hi) :
                half \in {FoldRange(Step, st, s, lo, (lo + hi) \div 2)}} : TRUE

ForEach(Step(_, _), st, s) == FoldRange(Step, st, s, 1, Len(s))

\* while not Done(st): st = Step(st), for at most 2^(k+1) - 1 iterations,
\* unfolded by halves in the same way
RECURSIVE Repeat(_, _, _, _)
Repeat(Step(_), Done(_), st, k) ==
    IF Done(st) THEN st
    ELSE IF k = 0 THEN Step(st)
    ELSE CHOOSE result \in
            {Repeat(Step, Done, half, k - 1) : half \in {Repeat(Step, Done, st, k - 1)}} : TRUE

NoDuplicates(s) == \A i, j \in DOMAIN s : i # j => s[i] # s[j]

(***************************************************************************)
(* The graph: _build_graph.                                                *)
(***************************************************************************)
EmptyNode ==
    [total_sent |-> 0, total_received |-> 0, tx_count |-> 0, send_count |-> 0,
     recv_count |-> 0, senders |-> {}, receivers |-> {}, timestamps |-> <<>>]

EmptyGraph ==
    [nodes |-> <<>>,
     data  |-> [n \in {} |-> EmptyNode],
     succ  |-> [n \in {} |-> <<>>],
     pred  |-> [n \in {} |-> <<>>],
     edge  |-> [e \in {} |-> [weight |-> 0, count |-> 0, timestamps |-> <<>>]]]

has_node(g, n) == n \in DOMAIN g.data

has_edge(g, s, r) == <<s, r>> \in DOMAIN g.edge

add_node(g, n) ==
    IF has_node(g, n) THEN g
    ELSE [g EXCEPT !.nodes = Append(@, n),
                   !.data = @ @@ (n :> EmptyNode),
                   !.succ = @ @@ (n :> <<>>),
                   !.pred = @ @@ (n :> <<>>)]

\* one iteration of the loop of _build_graph
AddRow(g, row) ==
    LET s == row.sender_id
        r == row.receiver_id
        amt == row.amount
        ts == row.timestamp
        g1 == add_node(add_node(g, s), r)
        g2 == [g1 EXCEPT !.data[s].total_sent = @ + amt,
                         !.data[s].tx_count = @ + 1,
                         !.data[s].send_count = @ + 1,
                         !.data[s].receivers = @ \cup {r},
                         !.data[s].timestamps = Append(@, ts)]
        g3 == [g2 EXCEPT !.data[r].total_received = @ + amt,
                         !.data[r].tx_count = @ + 1,
                         !.data[r].recv_count = @ + 1,
                         !.data[r].senders = @ \cup {s},
                         !.data[r].timestamps = Append(@, ts)]
    IN  IF has_edge(g3, s, r)
        THEN [g3 EXCEPT !.edge[<<s, r>>].weight = @ + amt,
                        !.edge[<<s, r>>].count = @ + 1,
                        !.edge[<<s, r>>].timestamps = Append(@, ts)]
        ELSE [g3 EXCEPT !.edge = @ @@ (<<s, r>> :> [weight |-> amt, count |-> 1,
                                                    timestamps |-> <<ts>>]),
                        !.succ[s] = Append(@, r),
                        !.pred[r] = Append(@, s)]

_build_graph(df) == ForEach(AddRow, EmptyGraph, df)

successors(g, n) == g.succ[n]

\* out_edges(node, data=True) and in_edges(node, data=True): the edge records
out_edges(g, n) == [i \in 1..Len(g.succ[n]) |-> g.edge[<<n, g.succ[n][i]>>]]

in_edges(g, n) == [i \in 1..Len(g.pred[n]) |-> g.edge[<<g.pred[n][i], n>>]]

(***************************************************************************)
(* _next_ring_id: "RING_%03d" as the prefix followed by the decimal digits *)
(* of the counter, padded with zeros to three digits.                      *)
(***************************************************************************)
RECURSIVE Digits(_)
Digits(k) == IF k < 10 THEN <<k>> ELSE Append(Digits(k \div 10), k % 10)

RECURSIVE PadLeft(_, _)
PadLeft(ds, w) == IF Len(ds) >= w THEN ds ELSE PadLeft(<<0>> \o ds, w)

_next_ring_id(counter) == <<"RING_">> \o PadLeft(Digits(counter + 1), RING_ID_WIDTH)

(***************************************************************************)
(* _is_merchant_or_payroll.  cv < 0.25 is compared as                      *)
(* 16 * variance < mean^2 on the sums.  The coefficient of variation does  *)
(* not change when every amount is scaled, so the per-edge averages are    *)
(* taken in hundreds of currency units, which keeps the squares within the *)
(* integers of the model checker.                                          *)
(***************************************************************************)
EdgeAverages(g, n) ==
    LET oe == out_edges(g, n)
    IN  [i \in 1..Len(oe) |-> (oe[i].weight \div Max2(oe[i].count, 1)) \div 100]

RegularAmounts(amounts) ==
    LET n == Len(amounts)
        total == SumSeq(amounts)
        squares == SumSeq([i \in 1..n |-> amounts[i] * amounts[i]])
    IN  /\ n >= PAYROLL_MIN_EDGES
        /\ total > 0
        /\ 16 * (n * squares - total * total) < total * total

_is_merchant_or_payroll(g, node) ==
    LET d == g.data[node]
        senders_count == Cardinality(d.senders)
        receivers_count == Cardinality(d.receivers)
    IN  \/ senders_count >= HUB_MIN_COUNTERPARTIES /\ receivers_count <= HUB_MAX_OPPOSITE
        \/ /\ receivers_count >= HUB_MIN_COUNTERPARTIES
           /\ senders_count <= HUB_MAX_OPPOSITE
           /\ RegularAmounts(EdgeAverages(g, node))

(***************************************************************************)
(* Scores.                                                                 *)
(***************************************************************************)
\* round(x, 1) on thousandths: the nearest tenth
Round1(x) == ((x + 50) \div 100) * 100

CapScore(x) == Min2(SCORE_CAP * Milli, x)

(***************************************************************************)
(* _flag_account.  The suspicious map is the sequence of its entries in    *)
(* insertion order (a Python dict keeps it).                               *)
(***************************************************************************)
HasEntry(sus, account_id) == \E i \in DOMAIN sus : sus[i].account_id = account_id

EntryIndex(sus, account_id) == CHOOSE i \in DOMAIN sus : sus[i].account_id = account_id

AddPattern(patterns, pattern) ==
    IF Contains(patterns, pattern) THEN patterns ELSE Append(patterns, pattern)

\* AccumulateScore without the min(100.0, ...) of line 163
AccumulateScoreUncapped(score, base_score) == score + base_score

AccumulateScore(score, base_score) == CapScore(score + base_score)

_flag_account(sus, account_id, pattern, ring_id, base_score) ==
    LET sus1 == IF HasEntry(sus, account_id) THEN sus
                ELSE Append(sus, [account_id |-> account_id, suspicion_score |-> 0,
                                  detected_patterns |-> <<>>, ring_id |-> ring_id])
        i == EntryIndex(sus1, account_id)
        e == sus1[i]
    IN  [sus1 EXCEPT ![i] =
            [e EXCEPT !.detected_patterns = AddPattern(@, pattern),
                      !.suspicion_score = AccumulateScore(@, base_score),
                      !.ring_id = IF e.ring_id = <<>> THEN ring_id ELSE @]]

(***************************************************************************)
(* detect_cycles.                                                          *)
(***************************************************************************)
Rotate(c, k) ==
    LET n == Len(c)
    IN  IF n = 0 THEN c ELSE [i \in 1..n |-> c[((i - 1 + k) % n) + 1]]

\* a canonical form that sorts the accounts instead of rotating the cycle
CanonicalizeSorted(cyc) == SortedSeq(Range(cyc))

\* cyc[min_idx:] + cyc[:min_idx] with min_idx = cyc.index(min(cyc))
_canonicalize_cycle(cyc) ==
    LET min_idx == IndexOf(cyc, MinOf(Range(cyc)))
    IN  SubSeq(cyc, min_idx, Len(cyc)) \o SubSeq(cyc, 1, min_idx - 1)

\* the simple paths that extend a path of `paths` by one successor, on
\* accounts above s
Extensions(g, s, paths) ==
    UNION {{Append(p, n) : n \in {m \in Range(successors(g, p[Len(p)])) :
                                    m > s /\ ~Contains(p, m)}} : p \in paths}

\* the cycles through s, of k nodes or more, that close a path of `paths`
\* or of its extensions
RECURSIVE CyclesThrough(_, _, _, _)
CyclesThrough(g, s, paths, k) ==
    {p \in paths : has_edge(g, p[Len(p)], s)}
    \cup (IF k < MAX_CYCLE_LEN /\ paths # {}
          THEN CyclesThrough(g, s, Extensions(g, s, paths), k + 1)
          ELSE {})

\* nx.simple_cycles(G, length_bound=5): every simple directed cycle of at
\* most 5 nodes, once; here each is written from its smallest account
SimpleCycles(g) == UNION {CyclesThrough(g, s, {<<s>>}, 1) : s \in Range(g.nodes)}

LexLess(a, b) ==
    \/ \E i \in 1..Min2(Len(a), Len(b)) :
          /\ a[i] < b[i]
          /\ \A j \in 1..(i - 1) : a[j] = b[j]
    \/ /\ Len(a) < Len(b)
       /\ \A j \in 1..Len(a) : a[j] = b[j]

SortedTuples(S) ==
    [i \in 1..Cardinality(S) |->
        CHOOSE x \in S : Cardinality({y \in S : LexLess(y, x)}) = i - 1]

\* The order in which the library yields the cycles, and the account each is
\* written from, depend on the hashing of the account ids.  The orders explored
\* are the first MaxRotations rotations of the sorted list and their reversals
\* (every order of up to three cycles); every cycle is written from its
\* (1 + rot)-th account, rot in 0..MaxRot.
EnumerationOrders(S) ==
    LET sorted == SortedTuples(S)
        n == Len(sorted)
    IN  IF n = 0 THEN {<<>>}
        ELSE {Rotate(sorted, k) : k \in 0..(Min2(n, MaxRotations) - 1)}
             \cup {Reverse(Rotate(sorted, k)) : k \in 0..(Min2(n, MaxRotations) - 1)}

\* the length filter with its lower limit off by one
IsCycleLengthFromTwo(n) == MIN_CYCLE_LEN - 1 <= n /\ n <= MAX_CYCLE_LEN

IsCycleLength(n) == MIN_CYCLE_LEN <= n /\ n <= MAX_CYCLE_LEN

\* one iteration of the loop of the try block: keep a cycle of 3 to 5
\* accounts, canonical, unless it was found before
CollectCycle(found_cycles, cyc) ==
    IF IsCycleLength(Len(cyc)) /\ ~Contains(found_cycles, _canonicalize_cycle(cyc))
    THEN Append(found_cycles, _canonicalize_cycle(cyc))
    ELSE found_cycles

CollectCycles(raw) == ForEach(CollectCycle, <<>>, raw)

\* _dfs_cycles: one successor of the popped node
DfsSuccessor(acc, start, top, nbr) ==
    IF nbr = start /\ Len(top.path) >= 3
    THEN [acc EXCEPT !.cycles = Append(@, _canonicalize_cycle(top.path))]
    ELSE IF nbr \notin acc.visited /\ top.depth < 4
    THEN [acc EXCEPT !.visited = @ \cup {nbr},
                     !.stack = Append(@, [curr |-> nbr, path |-> Append(top.path, nbr),
                                          depth |-> top.depth + 1])]
    ELSE acc

\* the iteration with the popped entry left on the stack
DfsPopKeepsTop(g, start, acc) ==
    LET top == acc.stack[Len(acc.stack)]
    IN  IF top.depth >= 5 THEN acc
        ELSE ForEach(LAMBDA a, nbr : DfsSuccessor(a, start, top, nbr), acc,
                     successors(g, top.curr))

\* _dfs_cycles: one iteration of the while loop
DfsPop(g, start, acc) ==
    LET top == acc.stack[Len(acc.stack)]
        popped == [acc EXCEPT !.stack = SubSeq(@, 1, Len(@) - 1)]
    IN  IF top.depth >= 5 THEN popped
        ELSE ForEach(LAMBDA a, nbr : DfsSuccessor(a, start, top, nbr), popped,
                     successors(g, top.curr))

StackEmpty(st) == st.stack = <<>>

\* _dfs_cycles: the search from one start node
DfsStart(g, cycles, start) ==
    Repeat(LAMBDA a : DfsPop(g, start, a), StackEmpty,
           [stack |-> <<[curr |-> start, path |-> <<start>>, depth |-> 0]>>,
            visited |-> {start},
            cycles |-> cycles],
           LoopFuel).cycles

_dfs_cycles(g, nodes) == ForEach(LAMBDA cycles, start : DfsStart(g, cycles, start), <<>>, nodes)

\* total_flow of a cycle: the weights of its hops
TotalFlow(g, cyc) ==
    SumSeq([i \in 1..Len(cyc) |->
              IF has_edge(g, cyc[i], cyc[(i % Len(cyc)) + 1])
              THEN g.edge[<<cyc[i], cyc[(i % Len(cyc)) + 1]>>].weight
              ELSE 0])

CycleRisk(total_flow, cycle_len) ==
    CapScore(60 * Milli + (total_flow * 5) \div Max2(cycle_len, 1) + cycle_len * 5 * Milli)

\* the score of a cycle of three accounts, whatever the length
CycleBaseScoreOfThree(cycle_len) == (40 + 3 * 5) * Milli

CycleBaseScore(cycle_len) == (40 + cycle_len * 5) * Milli

\* f"cycle_length_{len(cyc)}", for the lengths a cycle of at most 5 accounts has
CyclePattern(cycle_len) ==
    <<"cycle_length_1", "cycle_length_2", "cycle_length_3", "cycle_length_4",
      "cycle_length_5">>[cycle_len]

\* the loop body without its hub test
FlagCycleMemberUnguarded(g, sus, acc, ring_id, cycle_len) ==
    _flag_account(sus, acc, CyclePattern(cycle_len), ring_id, CycleBaseScore(cycle_len))

\* for acc in cyc: flag the account unless it is a hub
FlagCycleMember(g, sus, acc, ring_id, cycle_len) ==
    IF ~_is_merchant_or_payroll(g, acc)
    THEN _flag_account(sus, acc, CyclePattern(cycle_len), ring_id, CycleBaseScore(cycle_len))
    ELSE sus

CycleRing(g, cyc, ring_id) ==
    [ring_id |-> ring_id,
     member_accounts |-> cyc,
     pattern_type |-> "cycle",
     risk_score |-> Round1(CycleRisk(TotalFlow(g, cyc), Len(cyc)))]

\* the loop body with the counter left as it was: the next ring draws the
\* same id
RegisterCycleSameId(g, st, cyc) ==
    IF Range(cyc) \in st.seen_sets THEN st
    ELSE LET ring_id == _next_ring_id(st.ring_counter)
         IN  [seen_sets |-> st.seen_sets \cup {Range(cyc)},
              rings |-> Append(st.rings, CycleRing(g, cyc, ring_id)),
              suspicious |-> ForEach(LAMBDA sus, acc :
                                        FlagCycleMember(g, sus, acc, ring_id, Len(cyc)),
                                     st.suspicious, cyc),
              ring_counter |-> st.ring_counter]

\* one iteration of the loop that registers a ring per cycle whose account
\* set is new
RegisterCycle(g, st, cyc) ==
    IF Range(cyc) \in st.seen_sets THEN st
    ELSE LET ring_id == _next_ring_id(st.ring_counter)
         IN  [seen_sets |-> st.seen_sets \cup {Range(cyc)},
              rings |-> Append(st.rings, CycleRing(g, cyc, ring_id)),
              suspicious |-> ForEach(LAMBDA sus, acc :
                                        FlagCycleMember(g, sus, acc, ring_id, Len(cyc)),
                                     st.suspicious, cyc),
              ring_counter |-> st.ring_counter + 1]

RegisterCycles(g, found_cycles, st) ==
    LET done == ForEach(LAMBDA t, cyc : RegisterCycle(g, t, cyc),
                        [seen_sets |-> {}, rings |-> st.rings,
                         suspicious |-> st.suspicious, ring_counter |-> st.ring_counter],
                        found_cycles)
    IN  [rings |-> done.rings, suspicious |-> done.suspicious,
         ring_counter |-> done.ring_counter]

(***************************************************************************)
(* _temporal_concentration: the result max_in_window / len(all_ts) is kept *)
(* as the fraction [num, den]; 0.0 is 0/1.                                 *)
(***************************************************************************)
\* sorted(s): the k-th element is the one with k - 1 elements before it,
\* equal elements in their order in s
SortInts(s) ==
    LET n == Len(s)
        before == [i \in 1..n |->
                     Cardinality({j \in 1..n : s[j] < s[i] \/ (s[j] = s[i] /\ j < i)})]
    IN  [k \in 1..n |-> s[CHOOSE i \in 1..n : before[i] = k - 1]]

AllTimestamps(edges) == Concat([i \in DOMAIN edges |-> edges[i].timestamps])

WindowSeconds == WINDOW_HOURS * 3600

\* a variant whose window excludes a stamp exactly 72 hours later
InWindowStrict(all_ts, i) == Cardinality({j \in i..Len(all_ts) : all_ts[j] - all_ts[i] < WindowSeconds})

InWindow(all_ts, i) == Cardinality({j \in i..Len(all_ts) : all_ts[j] - all_ts[i] <= WindowSeconds})

_temporal_concentration(edges) ==
    LET all_ts == SortInts(AllTimestamps(edges))
        n == Len(all_ts)
    IN  IF n < MIN_TEMPORAL THEN [num |-> 0, den |-> 1]
        ELSE LET max_in_window == MaxOf({InWindow(all_ts, i) : i \in 1..n})
             IN  [num |-> Min2(max_in_window, n), den |-> n]

(***************************************************************************)
(* detect_smurfing.                                                        *)
(***************************************************************************)
\* list(d["senders"]): the iteration order of a set of strings depends on their
\* hashing; the two orders explored are ascending and descending ids
SetAsList(S, desc) == IF desc THEN Reverse(SortedSeq(S)) ELSE SortedSeq(S)

NonHubs(g, members) == SelectSeq(members, LAMBDA m : ~_is_merchant_or_payroll(g, m))

SmurfBase(count, temporal_score) ==
    35 * Milli + Min2(count, FAN_CAP) * 600 + (15 * Milli * temporal_score.num) \div temporal_score.den

SmurfPatterns(label, temporal_score) ==
    IF 2 * temporal_score.num > temporal_score.den
    THEN <<label, "high_velocity">> ELSE <<label>>

\* for pat in patterns: self._flag_account(acc, pat, ring_id, ...)
FlagPatterns(sus, acc, patterns, ring_id, base_score) ==
    ForEach(LAMBDA u, pat : _flag_account(u, acc, pat, ring_id, base_score), sus, patterns)

\* for acc in members: every pattern with its share of base * 0.7
FlagSmurfMembers(sus, members, patterns, ring_id, base) ==
    ForEach(LAMBDA u, acc : FlagPatterns(u, acc, patterns, ring_id,
                                         ((base * 7) \div 10) \div Len(patterns)),
            sus, members)

\* one of the two branches of the loop body: fan-in over the senders or
\* fan-out over the receivers of node
SmurfBranch(g, st, node, counterparties, edges, label, desc) ==
    IF Cardinality(counterparties) < FAN_MIN THEN st
    ELSE LET temporal_score == _temporal_concentration(edges)
             base == SmurfBase(Cardinality(counterparties), temporal_score)
             ring_id == _next_ring_id(st.ring_counter)
             members == NonHubs(g, <<node>> \o SetAsList(counterparties, desc))
         IN  IF Len(members) >= MIN_RING_MEMBERS
             THEN [rings |-> Append(st.rings,
                        [ring_id |-> ring_id, member_accounts |-> members,
                         pattern_type |-> "smurfing",
                         risk_score |-> Round1(CapScore(base))]),
                   suspicious |-> FlagSmurfMembers(st.suspicious, members,
                                     SmurfPatterns(label, temporal_score), ring_id, base),
                   ring_counter |-> st.ring_counter + 1]
             ELSE [st EXCEPT !.ring_counter = @ + 1]

SmurfNode(g, st, node, desc) ==
    IF _is_merchant_or_payroll(g, node) THEN st
    ELSE LET d == g.data[node]
             after_in == SmurfBranch(g, st, node, d.senders, in_edges(g, node),
                                     "fan_in", desc)
         IN  SmurfBranch(g, after_in, node, d.receivers, out_edges(g, node),
                         "fan_out", desc)

\* the loop over the accounts in the reverse of the graph's node order
detect_smurfing_backwards(g, st, desc) ==
    ForEach(LAMBDA t, node : SmurfNode(g, t, node, desc), st, Reverse(g.nodes))

detect_smurfing(g, st, desc) ==
    ForEach(LAMBDA t, node : SmurfNode(g, t, node, desc), st, g.nodes)

(***************************************************************************)
(* detect_shell_networks and _find_shell_chains.                           *)
(***************************************************************************)
ShellCandidates(g) ==
    {n \in Range(g.nodes) : SHELL_MIN_TX <= g.data[n].tx_count
                            /\ g.data[n].tx_count <= SHELL_MAX_TX}

Interior(path) == SubSeq(path, 2, Len(path) - 1)

ShellMembers(path, shell_candidates) ==
    SelectSeq(Interior(path), LAMBDA n : n \in shell_candidates)

\* the test with a threshold of half of the interior
IsShellChainByHalf(new_path, shell_candidates) ==
    /\ Len(new_path) >= MIN_CHAIN_LEN
    /\ Len(Interior(new_path)) >= 2
    /\ 10 * Len(ShellMembers(new_path, shell_candidates)) >= 5 * Len(Interior(new_path))

IsShellChain(new_path, shell_candidates) ==
    /\ Len(new_path) >= MIN_CHAIN_LEN
    /\ Len(Interior(new_path)) >= 2
    /\ 10 * Len(ShellMembers(new_path, shell_candidates)) >= 6 * Len(Interior(new_path))

ChainRisk(shell_members, path_len) ==
    CapScore((50 + shell_members * 10 + path_len * 3) * Milli)

ChainBaseScore(shell_members) == (30 + shell_members * 5) * Milli

\* the loop body that flags the shell candidates of the chain only
FlagChainMemberShellsOnly(g, sus, acc, shell_candidates, ring_id, base_score) ==
    IF ~_is_merchant_or_payroll(g, acc) /\ acc \in shell_candidates
    THEN _flag_account(sus, acc, "shell_intermediate", ring_id, base_score)
    ELSE sus

\* for acc in members: flag the account unless it is a hub
FlagChainMember(g, sus, acc, shell_candidates, ring_id, base_score) ==
    IF ~_is_merchant_or_payroll(g, acc)
    THEN _flag_account(sus, acc,
                       IF acc \in shell_candidates THEN "shell_intermediate"
                       ELSE "shell_endpoint",
                       ring_id, base_score)
    ELSE sus

ChainRing(new_path, shell_candidates, ring_id) ==
    [ring_id |-> ring_id,
     member_accounts |-> new_path,
     pattern_type |-> "layering",
     risk_score |-> Round1(ChainRisk(Len(ShellMembers(new_path, shell_candidates)),
                                     Len(new_path)))]

\* the registration of new_path as a ring, when its account set is new
RegisterChain(g, st, new_path, shell_candidates) ==
    IF Range(new_path) \in st.visited_chains THEN st
    ELSE LET ring_id == _next_ring_id(st.ring_counter)
             shell_members == Len(ShellMembers(new_path, shell_candidates))
         IN  [st EXCEPT
                !.visited_chains = @ \cup {Range(new_path)},
                !.ring_counter = @ + 1,
                !.rings = Append(@, ChainRing(new_path, shell_candidates, ring_id)),
                !.suspicious = ForEach(LAMBDA sus, acc :
                                          FlagChainMember(g, sus, acc, shell_candidates,
                                                          ring_id,
                                                          ChainBaseScore(shell_members)),
                                       @, new_path)]

\* one successor of the popped node
ChainSuccessor(g, st, top, succ, shell_candidates) ==
    IF Contains(top.path, succ) THEN st
    ELSE LET new_path == Append(top.path, succ)
             new_shell == top.shell_count + (IF succ \in shell_candidates THEN 1 ELSE 0)
             st1 == IF IsShellChain(new_path, shell_candidates)
                    THEN RegisterChain(g, st, new_path, shell_candidates)
                    ELSE st
         IN  IF Len(new_path) < MAX_CHAIN_LEN
             THEN [st1 EXCEPT !.stack = Append(@, [curr |-> succ, path |-> new_path,
                                                   shell_count |-> new_shell])]
             ELSE st1

\* one iteration of the while loop of _find_shell_chains
ChainPop(g, st, shell_candidates) ==
    LET top == st.stack[Len(st.stack)]
        popped == [st EXCEPT !.stack = SubSeq(@, 1, Len(@) - 1)]
    IN  IF Len(top.path) > MAX_CHAIN_LEN - 1 THEN popped
        ELSE ForEach(LAMBDA t, succ : ChainSuccessor(g, t, top, succ, shell_candidates),
                     popped, successors(g, top.curr))

_find_shell_chains(g, st, start, shell_candidates) ==
    Repeat(LAMBDA t : ChainPop(g, t, shell_candidates), StackEmpty,
           [st EXCEPT !.stack = <<[curr |-> start, path |-> <<start>>, shell_count |-> 0]>>],
           LoopFuel)

\* one iteration of the loop over the start nodes
ShellStart(g, st, start, shell_candidates) ==
    IF start \in shell_candidates THEN st
    ELSE _find_shell_chains(g, st, start, shell_candidates)

detect_shell_networks(g, st) ==
    LET shell_candidates == ShellCandidates(g)
    IN  IF shell_candidates = {} THEN st
        ELSE LET done == ForEach(LAMBDA t, start : ShellStart(g, t, start, shell_candidates),
                            [rings |-> st.rings, suspicious |-> st.suspicious,
                             ring_counter |-> st.ring_counter,
                             visited_chains |-> {}, stack |-> <<>>],
                            g.nodes)
             IN  [rings |-> done.rings, suspicious |-> done.suspicious,
                  ring_counter |-> done.ring_counter]

(***************************************************************************)
(* detect_high_velocity.                                                   *)
(***************************************************************************)
IsHighVelocity(g, node) ==
    LET ts_list == SortInts(g.data[node].timestamps)
        n == Len(ts_list)
        raw_span == ts_list[n] - ts_list[1]
        span == IF raw_span <= 0 THEN 1 ELSE raw_span
    IN  /\ n >= MIN_VELOCITY_TX
        /\ n * 3600 > MAX_TX_PER_HOUR * span

\* the update of an entry that exists
AmplifyEntry(e) ==
    [e EXCEPT !.detected_patterns = Append(@, "high_velocity"),
              !.suspicion_score = CapScore(@ + VELOCITY_BONUS * Milli)]

\* the loop body flagging through _flag_account, which creates the entry of an
\* account that has none
VelocityNodeFlagging(g, sus, node) ==
    IF _is_merchant_or_payroll(g, node) THEN sus
    ELSE IF ~IsHighVelocity(g, node) THEN sus
    ELSE _flag_account(sus, node, "high_velocity", <<>>, VELOCITY_BONUS * Milli)

VelocityNode(g, sus, node) ==
    IF _is_merchant_or_payroll(g, node) THEN sus
    ELSE IF ~IsHighVelocity(g, node) THEN sus
    ELSE IF HasEntry(sus, node)
    THEN [sus EXCEPT ![EntryIndex(sus, node)] = AmplifyEntry(@)]
    ELSE sus

detect_high_velocity(g, sus) ==
    ForEach(LAMBDA u, node : VelocityNode(g, u, node), sus, g.nodes)

(***************************************************************************)
(* run: reconciliation of ring membership and assembly of the report.      *)
(***************************************************************************)
\* the inner loop body without its test: the last ring that lists an account
\* claims it
ClaimMemberLastWins(c, acc, ring_id) ==
    [claimed |-> (acc :> ring_id) @@ c.claimed,
     unique_members |-> Append(c.unique_members, acc)]

\* one iteration of the inner loop: a member nobody claimed yet is claimed
\* for the ring and kept
ClaimMember(c, acc, ring_id) ==
    IF acc \notin DOMAIN c.claimed
    THEN [claimed |-> c.claimed @@ (acc :> ring_id),
          unique_members |-> Append(c.unique_members, acc)]
    ELSE c

ClaimMembers(members, ring_id, claimed) ==
    ForEach(LAMBDA c, acc : ClaimMember(c, acc, ring_id),
            [claimed |-> claimed, unique_members |-> <<>>], members)

\* the survival test with its threshold off by one
KeepRingOfOne(unique_members) == Len(unique_members) >= MIN_SURVIVORS - 1

KeepRing(unique_members) == Len(unique_members) >= MIN_SURVIVORS

\* the outer loop body with the claims of a dropped ring released
DedupRingReleasing(d, ring) ==
    LET c == ClaimMembers(ring.member_accounts, ring.ring_id, d.claimed)
    IN  IF KeepRing(c.unique_members)
        THEN [claimed |-> c.claimed,
              rings |-> Append(d.rings, [ring EXCEPT !.member_accounts = c.unique_members])]
        ELSE [claimed |-> d.claimed, rings |-> d.rings]

\* one iteration of the outer loop over self.rings
DedupRing(d, ring) ==
    LET c == ClaimMembers(ring.member_accounts, ring.ring_id, d.claimed)
    IN  IF KeepRing(c.unique_members)
        THEN [claimed |-> c.claimed,
              rings |-> Append(d.rings, [ring EXCEPT !.member_accounts = c.unique_members])]
        ELSE [claimed |-> c.claimed, rings |-> d.rings]

DedupRings(rs) == ForEach(DedupRing, [claimed |-> [a \in {} |-> <<>>], rings |-> <<>>], rs)

\* the entries whose account was claimed, with the ring id of the claim
ReassignEntries(sus, claimed) ==
    LET updated == [i \in DOMAIN sus |->
                      IF sus[i].account_id \in DOMAIN claimed
                      THEN [sus[i] EXCEPT !.ring_id = claimed[sus[i].account_id]]
                      ELSE sus[i]]
    IN  SelectSeq(updated, LAMBDA e : e.account_id \in DOMAIN claimed)

\* an ascending sort read backwards: entries of equal score end in the reverse
\* of their order in the map
SortByScoreBackwards(sus) ==
    LET n == Len(sus)
        before == [i \in 1..n |->
                     Cardinality({j \in 1..n :
                        \/ sus[j].suspicion_score > sus[i].suspicion_score
                        \/ sus[j].suspicion_score = sus[i].suspicion_score /\ j > i})]
    IN  [k \in 1..n |-> sus[CHOOSE i \in 1..n : before[i] = k - 1]]

\* sorted(..., key=suspicion_score, reverse=True): stable, so the k-th entry
\* is the one with k - 1 entries of higher score, or of equal score and earlier
SortByScore(sus) ==
    LET n == Len(sus)
        before == [i \in 1..n |->
                     Cardinality({j \in 1..n :
                        \/ sus[j].suspicion_score > sus[i].suspicion_score
                        \/ sus[j].suspicion_score = sus[i].suspicion_score /\ j < i})]
    IN  [k \in 1..n |-> sus[CHOOSE i \in 1..n : before[i] = k - 1]]

RingMembership(rs, node) ==
    LET hits == SelectSeq(rs, LAMBDA r : Contains(r.member_accounts, node))
    IN  [i \in DOMAIN hits |-> hits[i].ring_id]

BuildReport(g, rs, sus) ==
    LET sus_list == [i \in DOMAIN sus |->
                        [SortByScore(sus)[i] EXCEPT !.suspicion_score = Round1(@)]]
        ordered_rings == [i \in DOMAIN rs |-> [rs[i] EXCEPT !.risk_score = Round1(@)]]
    IN  [suspicious_accounts |-> sus_list,
         fraud_rings |-> ordered_rings,
         summary |-> [total_accounts_analyzed |-> Len(g.nodes),
                      suspicious_accounts_flagged |-> Len(sus_list),
                      fraud_rings_detected |-> Len(ordered_rings),
                      processing_time_seconds |-> 0],
         graph |-> [nodes |-> [i \in DOMAIN g.nodes |->
                        [id |-> g.nodes[i],
                         tx_count |-> g.data[g.nodes[i]].tx_count,
                         suspicious |-> HasEntry(sus, g.nodes[i]),
                         rings |-> RingMembership(rs, g.nodes[i]),
                         score |-> IF HasEntry(sus, g.nodes[i])
                                   THEN Round1(sus[EntryIndex(sus, g.nodes[i])].suspicion_score)
                                   ELSE 0]]]]

(***************************************************************************)
(* The inputs.  A core input is a choice of at most MaxRows rows among the *)
(* first PoolSize rows of RowPool, in the order of the pool.  A crowd      *)
(* input adds, to a smaller choice of core rows, a crowd of accounts that  *)
(* each send one transaction to the account `to` and/or each receive one   *)
(* from the account `from`, all within seconds or spread over months.      *)
(***************************************************************************)
Tx(s, r, amt, ts) == [sender_id |-> s, receiver_id |-> r, amount |-> amt, timestamp |-> ts]

RowPool ==
    << Tx(1, 2, 1000, 60),   Tx(2, 3, 1000, 120),  Tx(3, 1, 1000, 180),
       Tx(3, 4, 1000, 240),  Tx(1, 4, 10000, 300), Tx(4, 5, 10000, 360),
       Tx(5, 1, 10000, 420), Tx(2, 4, 1000, 480),  Tx(1, 3, 1000, 540),
       Tx(3, 2, 1000, 600),  Tx(2, 1, 1000, 660),  Tx(1, 1, 1000, 720),
       Tx(1, 2, 3000, 780),  Tx(4, 1, 1000, 840),  Tx(5, 2, 1000, 900) >>

PoolChoices(size, most) ==
    {S \in SUBSET (1..Min2(size, Len(RowPool))) : Cardinality(S) <= most}

RowsOf(S) == LET idx == SortedSeq(S) IN [i \in DOMAIN idx |-> RowPool[idx[i]]]

CrowdId(i) == 100 + i

CrowdTime(i, burst) == IF burst THEN i ELSE i * 100 * 3600

\* the rows of a crowd of n accounts: for each member, a transaction from
\* `from` to the member (if from # 0), then one from the member to `to`
\* (if to # 0)
CrowdRows(n, to, from, burst) ==
    LET each == (IF from # 0 THEN 1 ELSE 0) + (IF to # 0 THEN 1 ELSE 0)
    IN  [k \in 1..(n * each) |->
            LET i == ((k - 1) \div each) + 1
            IN  IF from # 0 /\ (k - 1) % each = 0
                THEN Tx(from, CrowdId(i), 500, CrowdTime(i, burst))
                ELSE Tx(CrowdId(i), to, 500, CrowdTime(i, burst))]

\* the account the crowd sends to and the account that sends to the crowd
\* (0: none)
CrowdTargets == {0, 1}

CrowdSources == {0, 1, 2}

CoreInputs == {RowsOf(S) : S \in PoolChoices(PoolSize, MaxRows)}

CrowdInputs ==
    {RowsOf(S) \o CrowdRows(n, to, from, burst) :
        <<S, n, to, from, burst>> \in
            {<<S, n, to, from, burst>> \in
                PoolChoices(CrowdPoolSize, CrowdMaxRows) \X {FAN_MIN, MaxCrowd}
                    \X CrowdTargets \X CrowdSources \X BOOLEAN :
                to # 0 \/ from # 0}}

\* a crowd of n accounts, numbered from first, that each send one transaction
\* to the account `to`: the last `late` of them days after the others
LateCrowdRows(n, late, to, first) ==
    [i \in 1..n |-> Tx(CrowdId(first + i), to, 500, CrowdTime(i, i <= n - late))]

\* two crowds of FAN_MIN or FAN_MIN + 2 senders, one for account 1 and one for
\* account 2, each with or without a late sender
TwoCrowdInputs ==
    {LateCrowdRows(c[1], c[2], 1, 0) \o LateCrowdRows(c[3], c[4], 2, MaxCrowd) :
        c \in {FAN_MIN, FAN_MIN + 2} \X {0, 1} \X {FAN_MIN, FAN_MIN + 2} \X {0, 1}}

\* Account 1 receives from FAN_MIN - 1 merchant hubs and from `plain` ordinary
\* accounts; every hub receives from the same HUB_MIN_COUNTERPARTIES feeders
\* and sends to account 1 only.  With `crowd`, FAN_MIN more accounts then send
\* to account 2.
HubSenderRows(plain, crowd) ==
    LET hubs == FAN_MIN - 1
        feeds == [k \in 1..(hubs * HUB_MIN_COUNTERPARTIES) |->
                    Tx(CrowdId(200 + ((k - 1) % HUB_MIN_COUNTERPARTIES) + 1),
                       CrowdId(300 + ((k - 1) \div HUB_MIN_COUNTERPARTIES) + 1), 500, k)]
        to_one == [h \in 1..hubs |-> Tx(CrowdId(300 + h), 1, 500, h)]
        plain_rows == [i \in 1..plain |-> Tx(CrowdId(400 + i), 1, 500, i)]
    IN  feeds \o to_one \o plain_rows
        \o (IF crowd THEN LateCrowdRows(FAN_MIN, 0, 2, 0) ELSE <<>>)

HubSenderInputs == {HubSenderRows(plain, crowd) : plain \in {1, 2}, crowd \in BOOLEAN}

\* n accounts 1..n, each sending one transaction of amt to the next and the
\* last to the first
PlainCycleRows(n, amt) == [i \in 1..n |-> Tx(i, (i % n) + 1, amt, 60 * i)]

PlainCycleInputs == {PlainCycleRows(n, amt) : n \in MIN_CYCLE_LEN..MAX_CYCLE_LEN, amt \in {1000, 3000}}

\* a chain of MAX_CHAIN_LEN + 2 accounts, each sending one transaction to the
\* next
LongChainRows == [i \in 1..(MAX_CHAIN_LEN + 1) |-> Tx(i, i + 1, 1000, 60 * i)]

Inputs ==
    CoreInputs \cup CrowdInputs \cup TwoCrowdInputs \cup HubSenderInputs
        \cup PlainCycleInputs \cup {LongChainRows}

(***************************************************************************)
(* The state of one analysis.                                              *)
(***************************************************************************)
VARIABLES
    G,                \* self.G
    rings,            \* self.rings
    suspicious,       \* self.suspicious
    ring_counter,     \* self.ring_counter
    claimed_accounts, \* the local claimed_accounts of run
    registered,       \* self.rings as it was when reconciliation started
    report,           \* the value returned by run
    pc,               \* the next step of run
    cyc,              \* the argument of a call of _canonicalize_cycle
    canon,            \* the result of that call
    tc_edges,         \* the argument of a call of _temporal_concentration
    tc_result,        \* the result of that call
    other,            \* the engine of a second, concurrent analysis
    search            \* the stack loop of the search that is running

vars == <<G, rings, suspicious, ring_counter, claimed_accounts, registered, report,
          pc, cyc, canon, tc_edges, tc_result, other, search>>

\* what the variables of the calls and of the second analysis hold in a run
\* that has none of them
NoEdges == <<>>

NoEngine == <<>>

NoSearch == [phase |-> "idle", stack |-> <<>>]

NoClaims == [a \in {} |-> <<>>]

\* ForensicsEngine.__init__
Init ==
    /\ \E df \in Inputs : G = _build_graph(df)
    /\ rings = <<>>
    /\ suspicious = <<>>
    /\ ring_counter = 0
    /\ claimed_accounts = NoClaims
    /\ registered = <<>>
    /\ report = <<>>
    /\ pc = "detect_cycles"
    /\ cyc = <<>>
    /\ canon = <<>>
    /\ tc_edges = NoEdges
    /\ tc_result = <<>>
    /\ other = NoEngine
    /\ search = NoSearch

Engine == [rings |-> rings, suspicious |-> suspicious, ring_counter |-> ring_counter]

SetEngine(st) ==
    /\ rings' = st.rings
    /\ suspicious' = st.suspicious
    /\ ring_counter' = st.ring_counter

\* the cycles as the library yields them, in one of its orders
RawCycles(order, rot) == [i \in DOMAIN order |-> Rotate(order[i], rot)]

\* self.detect_cycles()
DetectCycles ==
    /\ pc = "detect_cycles"
    /\ \/ \E order \in EnumerationOrders(SimpleCycles(G)), rot \in 0..MaxRot :
             SetEngine(RegisterCycles(G, CollectCycles(RawCycles(order, rot)), Engine))
       \/ SetEngine(RegisterCycles(G, _dfs_cycles(G, G.nodes), Engine))
    /\ pc' = "detect_smurfing"
    /\ UNCHANGED <<search, tc_edges, tc_result, other, G, claimed_accounts, registered, report, cyc, canon>>

\* self.detect_smurfing()
DetectSmurfing ==
    /\ pc = "detect_smurfing"
    /\ \E desc \in BOOLEAN : SetEngine(detect_smurfing(G, Engine, desc))
    /\ pc' = "detect_shell_networks"
    /\ UNCHANGED <<search, tc_edges, tc_result, other, G, claimed_accounts, registered, report, cyc, canon>>

\* self.detect_shell_networks()
DetectShellNetworks ==
    /\ pc = "detect_shell_networks"
    /\ SetEngine(detect_shell_networks(G, Engine))
    /\ pc' = "detect_high_velocity"
    /\ UNCHANGED <<search, tc_edges, tc_result, other, G, claimed_accounts, registered, report, cyc, canon>>

\* self.detect_high_velocity()
DetectHighVelocity ==
    /\ pc = "detect_high_velocity"
    /\ suspicious' = detect_high_velocity(G, suspicious)
    /\ pc' = "reconcile"
    /\ UNCHANGED <<search, tc_edges, tc_result, other, G, rings, ring_counter, claimed_accounts, registered, report, cyc, canon>>

\* the deduplication of ring membership and the clean-up of the suspicious map
Reconcile ==
    /\ pc = "reconcile"
    /\ LET d == DedupRings(rings)
       IN  /\ rings' = d.rings
           /\ claimed_accounts' = d.claimed
           /\ suspicious' = ReassignEntries(suspicious, d.claimed)
    /\ registered' = rings
    /\ pc' = "assemble"
    /\ UNCHANGED <<search, tc_edges, tc_result, other, G, ring_counter, report, cyc, canon>>

\* the assembly of the returned report
Assemble ==
    /\ pc = "assemble"
    /\ report' = BuildReport(G, rings, suspicious)
    /\ pc' = "done"
    /\ UNCHANGED <<search, tc_edges, tc_result, other, G, rings, suspicious, ring_counter, claimed_accounts, registered,
                   cyc, canon>>

\* an error raised inside the detector that is running: run calls the detectors
\* without a handler, so the error leaves run and no report is returned
DetectorRaises ==
    /\ pc \in {"detect_cycles", "detect_smurfing", "detect_shell_networks",
               "detect_high_velocity"}
    /\ pc' = "aborted"
    /\ UNCHANGED <<search, tc_edges, tc_result, other, G, rings, suspicious, ring_counter,
                   claimed_accounts, registered, report, cyc, canon>>

Next ==
    \/ DetectCycles
    \/ DetectSmurfing
    \/ DetectShellNetworks
    \/ DetectHighVelocity
    \/ DetectorRaises
    \/ Reconcile
    \/ Assemble

Spec == Init /\ [][Next]_vars

(***************************************************************************)
(* _canonicalize_cycle on its own: a call on a tuple of distinct accounts, *)
(* then calls on its rotations and on its own result.                      *)
(***************************************************************************)
CanonInputs ==
    UNION {{c \in [1..n -> 1..(MaxCanonLen + 1)] : NoDuplicates(c)} : n \in 1..MaxCanonLen}

InitCanon ==
    /\ G = EmptyGraph
    /\ rings = <<>>
    /\ suspicious = <<>>
    /\ ring_counter = 0
    /\ claimed_accounts = NoClaims
    /\ registered = <<>>
    /\ report = <<>>
    /\ pc = "canon_call"
    /\ cyc \in CanonInputs
    /\ canon = <<>>
    /\ tc_edges = NoEdges
    /\ tc_result = <<>>
    /\ other = NoEngine
    /\ search = NoSearch

\* canon = self._canonicalize_cycle(cyc)
CanonCall ==
    /\ pc = "canon_call"
    /\ canon' = _canonicalize_cycle(cyc)
    /\ pc' = "canon_done"
    /\ UNCHANGED <<search, tc_edges, tc_result, other, G, rings, suspicious, ring_counter, claimed_accounts, registered,
                   report, cyc>>

\* the next call is on a rotation of the same cycle
CanonRotate ==
    /\ pc = "canon_done"
    /\ \E k \in 1..(Len(cyc) - 1) : cyc' = Rotate(cyc, k)
    /\ pc' = "canon_call"
    /\ UNCHANGED <<search, tc_edges, tc_result, other, G, rings, suspicious, ring_counter, claimed_accounts, registered,
                   report, canon>>

\* the next call is on the result of the last one
CanonReapply ==
    /\ pc = "canon_done"
    /\ cyc' = canon
    /\ pc' = "canon_call"
    /\ UNCHANGED <<search, tc_edges, tc_result, other, G, rings, suspicious, ring_counter, claimed_accounts, registered,
                   report, canon>>

NextCanon ==
    \/ CanonCall
    \/ CanonRotate
    \/ CanonReapply

SpecCanon == InitCanon /\ [][NextCanon]_vars

(***************************************************************************)
(* _temporal_concentration on its own: a call on a list of edges whose     *)
(* timestamp lists are drawn from a few instants (seconds): a burst within *)
(* an hour, the two sides of the 72 hour window, and a spread over 30 days.*)
(***************************************************************************)
MaxStamps == 4

TimePoints == {0, 3600, 72 * 3600, 72 * 3600 + 1, 15 * 24 * 3600, 30 * 24 * 3600}

StampLists == UNION {[1..n -> TimePoints] : n \in 0..MaxStamps}

\* the stamps in the order the transactions were read, carried by one edge
\* (k = 0) or split after the k-th over two edges
SplitStamps(s, k) ==
    IF k = 0 THEN <<[timestamps |-> s]>>
    ELSE <<[timestamps |-> SubSeq(s, 1, k)], [timestamps |-> SubSeq(s, k + 1, Len(s))]>>

EdgeLists ==
    {SplitStamps(p[1], p[2]) :
        p \in {q \in StampLists \X (0..MaxStamps) : q[2] = 0 \/ q[2] < Len(q[1])}}

InitTemporal ==
    /\ G = EmptyGraph
    /\ rings = <<>>
    /\ suspicious = <<>>
    /\ ring_counter = 0
    /\ claimed_accounts = NoClaims
    /\ registered = <<>>
    /\ report = <<>>
    /\ pc = "temporal_call"
    /\ cyc = <<>>
    /\ canon = <<>>
    /\ tc_edges \in EdgeLists
    /\ tc_result = <<>>
    /\ other = NoEngine
    /\ search = NoSearch

\* temporal_score = self._temporal_concentration(edges)
TemporalCall ==
    /\ pc = "temporal_call"
    /\ tc_result' = _temporal_concentration(tc_edges)
    /\ pc' = "temporal_done"
    /\ UNCHANGED <<search, tc_edges, other, G, rings, suspicious, ring_counter, claimed_accounts, registered,
                   report, cyc, canon>>

NextTemporal == TemporalCall

SpecTemporal == InitTemporal /\ [][NextTemporal]_vars

(***************************************************************************)
(* The stack loops of _dfs_cycles and _find_shell_chains, one iteration of *)
(* the while loop per step, in a run whose exhaustive enumeration raised.  *)
(* The inputs are dense: every ordered pair of the accounts 1..SearchNodes *)
(* transacts, self-loops included, but for at most one pair; with `tail`,  *)
(* the last of them also starts a chain of two accounts of low activity    *)
(* that leads back to account 1.                                           *)
(***************************************************************************)
SearchNodes == 3

DenseRows(tail) ==
    LET n == SearchNodes
        core == [k \in 1..(n * n) |-> Tx(((k - 1) \div n) + 1, ((k - 1) % n) + 1, 1000, 60 * k)]
    IN  IF tail
        THEN core \o <<Tx(n, n + 1, 1000, 60 * (n * n + 1)),
                       Tx(n + 1, n + 2, 1000, 60 * (n * n + 2)),
                       Tx(n + 2, 1, 1000, 60 * (n * n + 3))>>
        ELSE core

\* the rows but for those whose index is in S
Omit(rows, S) ==
    LET kept == SelectSeq([i \in DOMAIN rows |-> i], LAMBDA i : i \notin S)
    IN  [k \in DOMAIN kept |-> rows[kept[k]]]

SearchInputs ==
    {Omit(DenseRows(p[1]), {p[2]} \ {0}) :
        p \in BOOLEAN \X (0..(SearchNodes * SearchNodes + 3))}

InitSearch ==
    /\ \E df \in SearchInputs : G = _build_graph(df)
    /\ rings = <<>>
    /\ suspicious = <<>>
    /\ ring_counter = 0
    /\ claimed_accounts = NoClaims
    /\ registered = <<>>
    /\ report = <<>>
    /\ pc = "detect_cycles"
    /\ cyc = <<>>
    /\ canon = <<>>
    /\ tc_edges = NoEdges
    /\ tc_result = <<>>
    /\ other = NoEngine
    /\ search = NoSearch

\* except Exception: found_cycles = self._dfs_cycles(nodes); cycles = []
DfsEnter ==
    /\ pc = "detect_cycles"
    /\ search.phase = "idle"
    /\ search' = [phase |-> "dfs", idx |-> 0, stack |-> <<>>, visited |-> {},
                  cycles |-> <<>>]
    /\ UNCHANGED <<tc_edges, tc_result, other, G, rings, suspicious, ring_counter,
                   claimed_accounts, registered, report, pc, cyc, canon>>

\* for start in nodes: visited = {start: [start]}; stack = [(start, [start], 0)]
DfsNextStart ==
    /\ search.phase = "dfs"
    /\ search.stack = <<>>
    /\ search.idx < Len(G.nodes)
    /\ LET start == G.nodes[search.idx + 1]
       IN  search' = [search EXCEPT !.idx = @ + 1,
                                    !.visited = {start},
                                    !.stack = <<[curr |-> start, path |-> <<start>>,
                                                 depth |-> 0]>>]
    /\ UNCHANGED <<tc_edges, tc_result, other, G, rings, suspicious, ring_counter,
                   claimed_accounts, registered, report, pc, cyc, canon>>

\* while stack: one iteration
DfsIterate ==
    /\ search.phase = "dfs"
    /\ search.stack # <<>>
    /\ search' = DfsPop(G, G.nodes[search.idx], search)
    /\ UNCHANGED <<tc_edges, tc_result, other, G, rings, suspicious, ring_counter,
                   claimed_accounts, registered, report, pc, cyc, canon>>

\* return cycles, and the rest of detect_cycles
DfsReturn ==
    /\ search.phase = "dfs"
    /\ search.stack = <<>>
    /\ search.idx = Len(G.nodes)
    /\ SetEngine(RegisterCycles(G, search.cycles, Engine))
    /\ search' = NoSearch
    /\ pc' = "detect_smurfing"
    /\ UNCHANGED <<tc_edges, tc_result, other, G, claimed_accounts, registered, report,
                   cyc, canon>>

\* detect_shell_networks up to its loop: without shell candidates it returns
ShellEnter ==
    /\ pc = "detect_shell_networks"
    /\ search.phase = "idle"
    /\ IF ShellCandidates(G) = {}
       THEN /\ pc' = "detect_high_velocity"
            /\ search' = search
       ELSE /\ pc' = pc
            /\ search' = [phase |-> "shell", idx |-> 0, rings |-> rings,
                          suspicious |-> suspicious, ring_counter |-> ring_counter,
                          visited_chains |-> {}, stack |-> <<>>]
    /\ UNCHANGED <<tc_edges, tc_result, other, G, rings, suspicious, ring_counter,
                   claimed_accounts, registered, report, cyc, canon>>

\* for start in self.G.nodes(): a shell candidate is skipped, any other
\* account starts a search with stack = [(start, [start], 0)]
ShellNextStart ==
    /\ search.phase = "shell"
    /\ search.stack = <<>>
    /\ search.idx < Len(G.nodes)
    /\ LET start == G.nodes[search.idx + 1]
       IN  search' = [search EXCEPT
                        !.idx = @ + 1,
                        !.stack = IF start \in ShellCandidates(G) THEN <<>>
                                  ELSE <<[curr |-> start, path |-> <<start>>,
                                          shell_count |-> 0]>>]
    /\ UNCHANGED <<tc_edges, tc_result, other, G, rings, suspicious, ring_counter,
                   claimed_accounts, registered, report, pc, cyc, canon>>

\* while stack: one iteration
ShellIterate ==
    /\ search.phase = "shell"
    /\ search.stack # <<>>
    /\ search' = ChainPop(G, search, ShellCandidates(G))
    /\ UNCHANGED <<tc_edges, tc_result, other, G, rings, suspicious, ring_counter,
                   claimed_accounts, registered, report, pc, cyc, canon>>

\* the loop over the start nodes is over
ShellReturn ==
    /\ search.phase = "shell"
    /\ search.stack = <<>>
    /\ search.idx = Len(G.nodes)
    /\ SetEngine(search)
    /\ search' = NoSearch
    /\ pc' = "detect_high_velocity"
    /\ UNCHANGED <<tc_edges, tc_result, other, G, claimed_accounts, registered, report,
                   cyc, canon>>

NextSearch ==
    \/ DfsEnter
    \/ DfsNextStart
    \/ DfsIterate
    \/ DfsReturn
    \/ DetectSmurfing
    \/ ShellEnter
    \/ ShellNextStart
    \/ ShellIterate
    \/ ShellReturn
    \/ DetectHighVelocity
    \/ Reconcile
    \/ Assemble

\* run is sequential code: the step that is next is eventually taken
SpecSearch == InitSearch /\ [][NextSearch]_vars /\ WF_vars(NextSearch)

(***************************************************************************)
(* Two concurrent analyses: analyze builds one ForensicsEngine per request *)
(* and runs it; the steps of the two runs interleave in any order.  The    *)
(* first engine is the variables G .. pc, the second one the record other. *)
(***************************************************************************)
PairInputs == {RowsOf(S) : S \in PoolChoices(PairPoolSize, PairMaxRows)}

\* ForensicsEngine(df)
NewEngine(df) ==
    [G |-> _build_graph(df), rings |-> <<>>, suspicious |-> <<>>, ring_counter |-> 0,
     claimed_accounts |-> NoClaims, registered |-> <<>>, report |-> <<>>,
     pc |-> "detect_cycles"]

InitPair ==
    /\ \E df \in PairInputs : G = _build_graph(df)
    /\ rings = <<>>
    /\ suspicious = <<>>
    /\ ring_counter = 0
    /\ claimed_accounts = NoClaims
    /\ registered = <<>>
    /\ report = <<>>
    /\ pc = "detect_cycles"
    /\ cyc = <<>>
    /\ canon = <<>>
    /\ tc_edges = NoEdges
    /\ tc_result = <<>>
    /\ \E df \in PairInputs : other = NewEngine(df)
    /\ search = NoSearch

\* a field of the first analysis read where the second one reads its own: a
\* counter kept on the class instead of the instance
OtherEngineSharedCounter ==
    [rings |-> other.rings, suspicious |-> other.suspicious, ring_counter |-> ring_counter]

\* self.rings, self.suspicious and self.ring_counter of the second engine
OtherEngine ==
    [rings |-> other.rings, suspicious |-> other.suspicious,
     ring_counter |-> other.ring_counter]

SetOther(st, next_pc) ==
    other' = [other EXCEPT !.rings = st.rings, !.suspicious = st.suspicious,
                           !.ring_counter = st.ring_counter, !.pc = next_pc]

OtherDetectCycles ==
    /\ other.pc = "detect_cycles"
    /\ \/ \E order \in EnumerationOrders(SimpleCycles(other.G)), rot \in 0..MaxRot :
             SetOther(RegisterCycles(other.G, CollectCycles(RawCycles(order, rot)),
                                     OtherEngine), "detect_smurfing")
       \/ SetOther(RegisterCycles(other.G, _dfs_cycles(other.G, other.G.nodes), OtherEngine),
                   "detect_smurfing")
    /\ UNCHANGED <<G, rings, suspicious, ring_counter, claimed_accounts, registered,
                   report, pc, cyc, canon, tc_edges, tc_result, search>>

OtherDetectSmurfing ==
    /\ other.pc = "detect_smurfing"
    /\ \E desc \in BOOLEAN :
          SetOther(detect_smurfing(other.G, OtherEngine, desc), "detect_shell_networks")
    /\ UNCHANGED <<G, rings, suspicious, ring_counter, claimed_accounts, registered,
                   report, pc, cyc, canon, tc_edges, tc_result, search>>

OtherDetectShellNetworks ==
    /\ other.pc = "detect_shell_networks"
    /\ SetOther(detect_shell_networks(other.G, OtherEngine), "detect_high_velocity")
    /\ UNCHANGED <<G, rings, suspicious, ring_counter, claimed_accounts, registered,
                   report, pc, cyc, canon, tc_edges, tc_result, search>>

OtherDetectHighVelocity ==
    /\ other.pc = "detect_high_velocity"
    /\ other' = [other EXCEPT !.suspicious = detect_high_velocity(other.G, other.suspicious),
                              !.pc = "reconcile"]
    /\ UNCHANGED <<G, rings, suspicious, ring_counter, claimed_accounts, registered,
                   report, pc, cyc, canon, tc_edges, tc_result, search>>

OtherReconcile ==
    /\ other.pc = "reconcile"
    /\ LET d == DedupRings(other.rings)
       IN  other' = [other EXCEPT !.rings = d.rings,
                                  !.claimed_accounts = d.claimed,
                                  !.suspicious = ReassignEntries(other.suspicious, d.claimed),
                                  !.registered = other.rings,
                                  !.pc = "assemble"]
    /\ UNCHANGED <<G, rings, suspicious, ring_counter, claimed_accounts, registered,
                   report, pc, cyc, canon, tc_edges, tc_result, search>>

OtherAssemble ==
    /\ other.pc = "assemble"
    /\ other' = [other EXCEPT !.report = BuildReport(other.G, other.rings, other.suspicious),
                              !.pc = "done"]
    /\ UNCHANGED <<G, rings, suspicious, ring_counter, claimed_accounts, registered,
                   report, pc, cyc, canon, tc_edges, tc_result, search>>

NextPair ==
    \/ DetectCycles
    \/ DetectSmurfing
    \/ DetectShellNetworks
    \/ DetectHighVelocity
    \/ Reconcile
    \/ Assemble
    \/ OtherDetectCycles
    \/ OtherDetectSmurfing
    \/ OtherDetectShellNetworks
    \/ OtherDetectHighVelocity
    \/ OtherReconcile
    \/ OtherAssemble

SpecPair == InitPair /\ [][NextPair]_vars

\* the lists of cycles detect_cycles may work from on graph g
CycleLists(g) ==
    {CollectCycles(RawCycles(order, rot)) :
        order \in EnumerationOrders(SimpleCycles(g)), rot \in 0..MaxRot}
    \cup {_dfs_cycles(g, g.nodes)}

\* the report of run() on a fresh engine with graph g, alone
RunAlone(g, found_cycles, desc) ==
    LET fresh == [rings |-> <<>>, suspicious |-> <<>>, ring_counter |-> 0]
        after_cycles == RegisterCycles(g, found_cycles, fresh)
        after_smurfing == detect_smurfing(g, after_cycles, desc)
        after_shell == detect_shell_networks(g, after_smurfing)
        flagged == detect_high_velocity(g, after_shell.suspicious)
        d == DedupRings(after_shell.rings)
    IN  BuildReport(g, d.rings, ReassignEntries(flagged, d.claimed))

SoloReports(g) ==
    {RunAlone(g, found_cycles, desc) : found_cycles \in CycleLists(g), desc \in BOOLEAN}

(***************************************************************************)
(* The properties.                                                         *)
(***************************************************************************)

\* C1: in the final report every ring of fraud_rings has at least 2 member
\* accounts, no account occurs twice in one ring, and no account occurs in
\* the member lists of two different rings.
C1_RingsDisjoint ==
    pc = "done" =>
        LET fr == report.fraud_rings
        IN  /\ \A i \in DOMAIN fr :
                  /\ Len(fr[i].member_accounts) >= 2
                  /\ NoDuplicates(fr[i].member_accounts)
            /\ \A i, j \in DOMAIN fr :
                  i # j => Range(fr[i].member_accounts) \cap Range(fr[j].member_accounts) = {}

\* two rings that shared an account when they were registered are both in the
\* final report
C1_Witness ==
    /\ pc = "done"
    /\ \E i, j \in DOMAIN registered :
          /\ i < j
          /\ Range(registered[i].member_accounts) \cap Range(registered[j].member_accounts) # {}
          /\ \E k, l \in DOMAIN report.fraud_rings :
                /\ report.fraud_rings[k].ring_id = registered[i].ring_id
                /\ report.fraud_rings[l].ring_id = registered[j].ring_id

\* C2: every entry of the final suspicious_accounts list belongs to an account
\* that is a member of a ring of fraud_rings, and carries the id of that ring;
\* an account that is in no surviving ring has no entry.
C2_EntriesBelongToSurvivingRings ==
    pc = "done" =>
        \A i \in DOMAIN report.suspicious_accounts :
            \E k \in DOMAIN report.fraud_rings :
                /\ Contains(report.fraud_rings[k].member_accounts,
                            report.suspicious_accounts[i].account_id)
                /\ report.suspicious_accounts[i].ring_id = report.fraud_rings[k].ring_id

\* C3: an account that _is_merchant_or_payroll classifies as a hub is in the
\* member list of no ring, neither in self.rings at any point of the run nor
\* in fraud_rings of the final report.
C3_HubsInNoRing ==
    /\ \A k \in DOMAIN rings :
          \A m \in Range(rings[k].member_accounts) : ~_is_merchant_or_payroll(G, m)
    /\ pc = "done" =>
          \A k \in DOMAIN report.fraud_rings :
             \A m \in Range(report.fraud_rings[k].member_accounts) :
                ~_is_merchant_or_payroll(G, m)

\* C4: an account that _is_merchant_or_payroll classifies as a hub has no
\* entry in the suspicious map at any point of the run, and none in the final
\* suspicious_accounts list.
C4_HubsNeverFlagged ==
    /\ \A i \in DOMAIN suspicious : ~_is_merchant_or_payroll(G, suspicious[i].account_id)
    /\ pc = "done" =>
          \A i \in DOMAIN report.suspicious_accounts :
             ~_is_merchant_or_payroll(G, report.suspicious_accounts[i].account_id)

\* the run is over, a hub was on a cycle or a chain that a detector
\* registered, and other accounts of the run were flagged
C4_Witness ==
    /\ pc = "done"
    /\ report.suspicious_accounts # <<>>
    /\ \E k \in DOMAIN registered :
          /\ registered[k].pattern_type \in {"cycle", "layering"}
          /\ \E m \in Range(registered[k].member_accounts) : _is_merchant_or_payroll(G, m)

\* C5: at every point of the run and in the final report, every suspicion
\* score and every ring risk score lies in [0, 100] (in thousandths:
\* 0..100000).
C5_ScoresInRange ==
    /\ \A i \in DOMAIN suspicious :
          0 <= suspicious[i].suspicion_score /\ suspicious[i].suspicion_score <= 100 * Milli
    /\ \A k \in DOMAIN rings :
          0 <= rings[k].risk_score /\ rings[k].risk_score <= 100 * Milli
    /\ pc = "done" =>
          /\ \A i \in DOMAIN report.suspicious_accounts :
                /\ 0 <= report.suspicious_accounts[i].suspicion_score
                /\ report.suspicious_accounts[i].suspicion_score <= 100 * Milli
          /\ \A k \in DOMAIN report.fraud_rings :
                /\ 0 <= report.fraud_rings[k].risk_score
                /\ report.fraud_rings[k].risk_score <= 100 * Milli

\* an account that three detectors flagged is reported with the score 100
C5_Witness ==
    /\ pc = "done"
    /\ \E i \in DOMAIN report.suspicious_accounts :
          /\ report.suspicious_accounts[i].suspicion_score = 100 * Milli
          /\ Len(report.suspicious_accounts[i].detected_patterns) >= 3

\* C6 as stated: every ring of pattern_type "cycle" has 3 to 5 members, in
\* self.rings at every point of the run and in fraud_rings of the final
\* report.
C6_CycleRingsThreeToFive ==
    /\ \A k \in DOMAIN rings :
          rings[k].pattern_type = "cycle" =>
             3 <= Len(rings[k].member_accounts) /\ Len(rings[k].member_accounts) <= 5
    /\ pc = "done" =>
          \A k \in DOMAIN report.fraud_rings :
             report.fraud_rings[k].pattern_type = "cycle" =>
                /\ 3 <= Len(report.fraud_rings[k].member_accounts)
                /\ Len(report.fraud_rings[k].member_accounts) <= 5

\* C6, amended: a ring of pattern_type "cycle" has 3 to 5 members when
\* detect_cycles registers it and until reconciliation; in fraud_rings of the
\* final report it has 2 to 5 members.
C6_CycleRingsAmended ==
    /\ pc \notin {"assemble", "done"} =>
          \A k \in DOMAIN rings :
             rings[k].pattern_type = "cycle" =>
                3 <= Len(rings[k].member_accounts) /\ Len(rings[k].member_accounts) <= 5
    /\ \A k \in DOMAIN registered :
          registered[k].pattern_type = "cycle" =>
             /\ 3 <= Len(registered[k].member_accounts)
             /\ Len(registered[k].member_accounts) <= 5
    /\ pc = "done" =>
          \A k \in DOMAIN report.fraud_rings :
             report.fraud_rings[k].pattern_type = "cycle" =>
                /\ 2 <= Len(report.fraud_rings[k].member_accounts)
                /\ Len(report.fraud_rings[k].member_accounts) <= 5

\* a cycle ring of the final report that reconciliation cut down to 2 members
C6_Witness ==
    /\ pc = "done"
    /\ \E k \in DOMAIN report.fraud_rings :
          /\ report.fraud_rings[k].pattern_type = "cycle"
          /\ Len(report.fraud_rings[k].member_accounts) = 2

\* C7: the result of _canonicalize_cycle on a tuple of distinct accounts starts
\* with the smallest account, is a rotation of the argument (same cyclic order
\* and direction), is the result for every rotation of the argument, and is
\* its own canonical form.
C7_CanonicalRotation ==
    pc = "canon_done" =>
        /\ canon[1] = MinOf(Range(cyc))
        /\ \E k \in 0..(Len(cyc) - 1) : canon = Rotate(cyc, k)
        /\ \A k \in 0..(Len(cyc) - 1) : _canonicalize_cycle(Rotate(cyc, k)) = canon
        /\ _canonicalize_cycle(canon) = canon

\* a call on a cycle of 3 accounts or more that does not start with its
\* smallest account
C7_Witness ==
    /\ pc = "canon_done"
    /\ Len(cyc) >= 3
    /\ canon # cyc

\* C8: after reconciliation, a ring survives exactly when at least 2 of its
\* registered members are listed by no ring registered before it, and its
\* final member list is those accounts; so every account of a surviving ring
\* is in the earliest-registered ring that listed it, and its suspicious
\* entry, if it has one, carries that ring's id.
C8_FirstRegisteredWins ==
    pc \in {"assemble", "done"} =>
        /\ \A i \in DOMAIN registered :
              LET earlier == UNION {Range(registered[j].member_accounts) : j \in 1..(i - 1)}
                  remaining == Range(registered[i].member_accounts) \ earlier
                  survivors == {k \in DOMAIN rings : rings[k].ring_id = registered[i].ring_id}
              IN  IF Cardinality(remaining) < 2 THEN survivors = {}
                  ELSE /\ Cardinality(survivors) = 1
                       /\ \A k \in survivors : Range(rings[k].member_accounts) = remaining
        /\ \A k \in DOMAIN rings :
              \A acc \in Range(rings[k].member_accounts) :
                 /\ \E i \in DOMAIN registered :
                       /\ registered[i].ring_id = rings[k].ring_id
                       /\ acc \in Range(registered[i].member_accounts)
                       /\ \A j \in 1..(i - 1) : acc \notin Range(registered[j].member_accounts)
                 /\ \A e \in DOMAIN suspicious :
                       suspicious[e].account_id = acc => suspicious[e].ring_id = rings[k].ring_id

\* an account that a cycle ring and a later fan-in or fan-out ring both listed
\* ends in the cycle ring, with the cycle ring's id in its entry, while the
\* later ring survives without it
C8_Witness ==
    /\ pc = "done"
    /\ \E i, j \in DOMAIN registered :
          /\ i < j
          /\ registered[i].pattern_type = "cycle"
          /\ registered[j].pattern_type = "smurfing"
          /\ \E acc \in Range(registered[i].member_accounts)
                        \cap Range(registered[j].member_accounts) :
                /\ \E e \in DOMAIN suspicious :
                      /\ suspicious[e].account_id = acc
                      /\ suspicious[e].ring_id = registered[i].ring_id
                /\ \E k \in DOMAIN rings :
                      /\ rings[k].ring_id = registered[j].ring_id
                      /\ ~Contains(rings[k].member_accounts, acc)

\* C9: at every point of the run the detected_patterns list of every entry of
\* the suspicious map holds no label twice.
C9_PatternsDistinct ==
    \A i \in DOMAIN suspicious : NoDuplicates(suspicious[i].detected_patterns)

\* C10: detect_high_velocity leaves the ring list and the ring counter as they
\* are, creates and removes no entry of the suspicious map, and changes an
\* entry only by adding 15 to its score, capped at 100, and appending
\* "high_velocity" to its patterns.
C10_VelocityOnlyAmplifies ==
    [][pc = "detect_high_velocity" =>
          /\ rings' = rings
          /\ ring_counter' = ring_counter
          /\ Len(suspicious') = Len(suspicious)
          /\ \A i \in DOMAIN suspicious :
                \/ suspicious'[i] = suspicious[i]
                \/ /\ suspicious'[i].account_id = suspicious[i].account_id
                   /\ suspicious'[i].ring_id = suspicious[i].ring_id
                   /\ suspicious'[i].suspicion_score =
                         Min2(100 * Milli, suspicious[i].suspicion_score + 15 * Milli)
                   /\ suspicious'[i].detected_patterns =
                         Append(suspicious[i].detected_patterns, "high_velocity")]_vars

\* detect_high_velocity has run: it amplified the entry of an account that
\* only detect_cycles had flagged, and the accounts without an entry still
\* have none
C10_Witness ==
    /\ pc = "reconcile"
    /\ \E i \in DOMAIN suspicious :
          suspicious[i].detected_patterns = <<CyclePattern(3), "high_velocity">>
    /\ \E n \in Range(G.nodes) : ~HasEntry(suspicious, n)

C12_DetectorFailureDoesNotAbort == pc # "aborted"

\* C13: of two analyses whose steps interleave in any order, each returns a
\* report that it can return when it runs alone on its own input, ring ids
\* from RING_001 included.
C13_AnalysesIndependent ==
    /\ pc = "done" => report \in SoloReports(G)
    /\ other # NoEngine =>
          (other.pc = "done" => other.report \in SoloReports(other.G))

\* both analyses have returned a report with rings, on different inputs
C13_Witness ==
    /\ other # NoEngine
    /\ pc = "done"
    /\ other.pc = "done"
    /\ G # other.G
    /\ report.fraud_rings # <<>>
    /\ other.report.fraud_rings # <<>>

\* C14 as stated: in the final report suspicious_accounts is in descending
\* order of suspicion score, and entries of equal score are in the order in
\* which the entries were created during the run (the order of the suspicious
\* map).
C14_SortedByScore ==
    pc = "done" =>
        LET out == report.suspicious_accounts
        IN  \A i, j \in DOMAIN out :
               i < j =>
                  /\ out[i].suspicion_score >= out[j].suspicion_score
                  /\ out[i].suspicion_score = out[j].suspicion_score =>
                        EntryIndex(suspicious, out[i].account_id)
                           < EntryIndex(suspicious, out[j].account_id)

\* C14, amended: suspicious_accounts is in descending order of the reported
\* score and of the accumulated score before rounding; entries of equal
\* accumulated score are in the order in which they were created, while
\* entries that only share the rounded score are in descending order of the
\* accumulated score.
C14_SortedByRawScore ==
    pc = "done" =>
        LET out == report.suspicious_accounts
            raw == [i \in DOMAIN out |->
                      suspicious[EntryIndex(suspicious, out[i].account_id)].suspicion_score]
        IN  /\ Len(out) = Len(suspicious)
            /\ \A i, j \in DOMAIN out :
                  i < j =>
                     /\ out[i].suspicion_score >= out[j].suspicion_score
                     /\ raw[i] >= raw[j]
                     /\ raw[i] = raw[j] =>
                           EntryIndex(suspicious, out[i].account_id)
                              < EntryIndex(suspicious, out[j].account_id)

\* a report with two entries of equal accumulated score, and two entries of
\* equal reported score of which the one created later comes first
C14_Witness ==
    /\ pc = "done"
    /\ \E i, j \in DOMAIN suspicious :
          i < j /\ suspicious[i].suspicion_score = suspicious[j].suspicion_score
    /\ \E i, j \in DOMAIN report.suspicious_accounts :
          /\ i < j
          /\ report.suspicious_accounts[i].suspicion_score
                = report.suspicious_accounts[j].suspicion_score
          /\ EntryIndex(suspicious, report.suspicious_accounts[i].account_id)
                > EntryIndex(suspicious, report.suspicious_accounts[j].account_id)

\* C15 as stated: the rings appended to the ring list during a run carry the
\* ids RING_001, RING_002, ..., RING_k in list order, no number skipped.
C15_RingIdsSequential ==
    LET all == IF pc \in {"assemble", "done"} THEN registered ELSE rings
    IN  \A i \in DOMAIN all :
           all[i].ring_id = <<"RING_", i \div 100, (i \div 10) % 10, i % 10>>

\* C15, amended: the ids of the rings appended to the ring list are RING_n
\* with n strictly increasing in list order, from 1 and at most the number of
\* ids drawn; the cycle rings are numbered by their position, and a number is
\* skipped only before a smurfing or a layering ring.
C15_RingIdsIncreasing ==
    LET all == IF pc \in {"assemble", "done"} THEN registered ELSE rings
        number == [i \in DOMAIN all |->
                      100 * all[i].ring_id[2] + 10 * all[i].ring_id[3] + all[i].ring_id[4]]
    IN  /\ \A i \in DOMAIN all :
              /\ Len(all[i].ring_id) = 4
              /\ all[i].ring_id[1] = "RING_"
              /\ \A k \in 2..4 : all[i].ring_id[k] \in 0..9
              /\ i <= number[i]
              /\ number[i] <= ring_counter
              /\ all[i].pattern_type = "cycle" => number[i] = i
        /\ \A i, j \in DOMAIN all : i < j => number[i] < number[j]

\* a run whose first ring was registered as RING_002
C15_Witness ==
    /\ pc = "done"
    /\ registered # <<>>
    /\ registered[1].ring_id = <<"RING_", 0, 0, 2>>

(***************************************************************************)
(* C16: _temporal_concentration returns a value in [0, 1]: 0 for fewer     *)
(* than 3 timestamps; otherwise the largest number of timestamps lying     *)
(* within 72 hours after (or at) some timestamp, over the total count; so  *)
(* for 3 or more timestamps it is 1 exactly when the latest is at most 72  *)
(* hours after the earliest, and below 1 otherwise.                        *)
(***************************************************************************)
C16_TemporalConcentration ==
    pc = "temporal_done" =>
        LET stamps == Concat([i \in DOMAIN tc_edges |-> tc_edges[i].timestamps])
            n == Len(stamps)
            after(i) == Cardinality({j \in 1..n : /\ stamps[j] >= stamps[i]
                                                  /\ stamps[j] - stamps[i] <= 72 * 3600})
            earliest == CHOOSE t \in Range(stamps) : \A u \in Range(stamps) : t <= u
            latest == CHOOSE t \in Range(stamps) : \A u \in Range(stamps) : t >= u
        IN  /\ tc_result.den > 0
            /\ 0 <= tc_result.num
            /\ tc_result.num <= tc_result.den
            /\ n < 3 => tc_result.num = 0
            /\ n >= 3 =>
                 /\ tc_result.den = n
                 /\ \E i \in 1..n : tc_result.num = after(i)
                 /\ \A i \in 1..n : tc_result.num >= after(i)
                 /\ (tc_result.num = tc_result.den) <=> (latest - earliest <= 72 * 3600)

\* four stamps, the first and the last exactly 72 hours apart (reported 1.0)
C16_Witness ==
    /\ pc = "temporal_done"
    /\ Len(tc_edges) = 2
    /\ Len(Concat([i \in DOMAIN tc_edges |-> tc_edges[i].timestamps])) = 4
    /\ 0 \in Range(tc_edges[1].timestamps)
    /\ 72 * 3600 \in Range(tc_edges[2].timestamps)
    /\ tc_result = [num |-> 4, den |-> 4]

(***************************************************************************)
(* C17: when the input is exactly one simple directed cycle of N accounts  *)
(* (N in 3..5) with one transaction per hop, the report has exactly one    *)
(* ring, of pattern "cycle", whose members are the N accounts and whose    *)
(* risk is min(100, 60 + (total flow / N) * 0.005 + 5N); each of the N     *)
(* accounts has one entry with detected_patterns exactly                   *)
(* ["cycle_length_N"], score 40 + 5N and that ring's id.                   *)
(***************************************************************************)
C17_PlainCycleReport ==
    LET n == Len(G.nodes)
        accounts == Range(G.nodes)
        hop(c, i) == <<c[i], c[(i % n) + 1]>>
        \* the graph is one cycle through all its nodes, one transaction per hop
        plain == /\ n \in 3..5
                 /\ Cardinality(DOMAIN G.edge) = n
                 /\ \A e \in DOMAIN G.edge : G.edge[e].count = 1
                 /\ \E c \in [1..n -> accounts] :
                        /\ c[1] = G.nodes[1]
                        /\ Range(c) = accounts
                        /\ \A i \in 1..n : hop(c, i) \in DOMAIN G.edge
        flow == SumSeq([i \in 1..n |->
                          G.edge[<<G.nodes[i], G.succ[G.nodes[i]][1]>>].weight])
        raw == 60 * Milli + (flow * 5) \div n + 5 * n * Milli
        capped == IF raw > 100 * Milli THEN 100 * Milli ELSE raw
        risk == ((capped + 50) \div 100) * 100
    IN  (pc = "done" /\ plain) =>
            /\ Len(report.fraud_rings) = 1
            /\ report.fraud_rings[1].pattern_type = "cycle"
            /\ Len(report.fraud_rings[1].member_accounts) = n
            /\ Range(report.fraud_rings[1].member_accounts) = accounts
            /\ report.fraud_rings[1].risk_score = risk
            /\ Len(report.suspicious_accounts) = n
            /\ {e.account_id : e \in Range(report.suspicious_accounts)} = accounts
            /\ \A e \in Range(report.suspicious_accounts) :
                  /\ e.detected_patterns = <<CyclePattern(n)>>
                  /\ e.suspicion_score = (40 + 5 * n) * Milli
                  /\ e.ring_id = report.fraud_rings[1].ring_id

\* a cycle of four accounts with amounts 1000: risk 85.0, scores 60.0
C17_Witness ==
    /\ pc = "done"
    /\ Len(G.nodes) = 4
    /\ DOMAIN G.edge = {<<1, 2>>, <<2, 3>>, <<3, 4>>, <<4, 1>>}
    /\ \A e \in DOMAIN G.edge : G.edge[e].count = 1 /\ G.edge[e].weight = 1000
    /\ Len(report.fraud_rings) = 1
    /\ report.fraud_rings[1].risk_score = 85 * Milli
    /\ Len(report.suspicious_accounts) = 4
    /\ report.suspicious_accounts[1].suspicion_score = 60 * Milli

(***************************************************************************)
(* C18: detect_cycles registers exactly one ring per distinct canonical    *)
(* cycle of 3 to 5 accounts of the graph: two simple cycles that are not   *)
(* rotations of each other, also two over the same accounts in different   *)
(* orders, each get their own ring.                                        *)
(***************************************************************************)
C18_OneRingPerCanonicalCycle ==
    pc = "detect_smurfing" =>
        LET canonical == {_canonicalize_cycle(c) :
                            c \in {d \in SimpleCycles(G) : Len(d) \in 3..5}}
        IN  /\ Len(rings) = Cardinality(canonical)
            /\ {rings[i].member_accounts : i \in DOMAIN rings} = canonical

(***************************************************************************)
(* C19: when reconciliation drops a ring because fewer than 2 of its       *)
(* members were still unclaimed, the accounts that ring had claimed appear *)
(* in the member list of no surviving ring, even when a later-registered   *)
(* ring also lists them.                                                   *)
(***************************************************************************)
C19_DroppedClaimsNotReassigned ==
    pc \in {"assemble", "done"} =>
        LET surviving == {rings[k].ring_id : k \in DOMAIN rings}
        IN  \A i \in DOMAIN registered :
               registered[i].ring_id \notin surviving =>
                  \A a \in Range(registered[i].member_accounts) :
                     (\A h \in 1..(i - 1) : a \notin Range(registered[h].member_accounts)) =>
                        \A k \in DOMAIN rings : a \notin Range(rings[k].member_accounts)

\* a dropped ring was the first to list an account, and a ring registered
\* after it that also lists the account survives
C19_Witness ==
    /\ pc = "done"
    /\ \E i, j \in DOMAIN registered :
          /\ i < j
          /\ registered[i].ring_id \notin {rings[k].ring_id : k \in DOMAIN rings}
          /\ registered[j].ring_id \in {rings[k].ring_id : k \in DOMAIN rings}
          /\ \E a \in Range(registered[i].member_accounts) :
                /\ \A h \in 1..(i - 1) : a \notin Range(registered[h].member_accounts)
                /\ a \in Range(registered[j].member_accounts)

(***************************************************************************)
(* C20: the fallback search _dfs_cycles yields, after canonicalization and *)
(* deduplication, the same set of cycles as the exhaustive enumeration of  *)
(* the simple directed cycles of 3 to 5 accounts, so whichever of the two  *)
(* ran, the cycle rings cover the same cycles.                             *)
(***************************************************************************)
C20_FallbackFindsSameCycles ==
    pc = "detect_smurfing" =>
        LET exhaustive == {c \in SimpleCycles(G) : Len(c) \in 3..5}
        IN  /\ Range(_dfs_cycles(G, G.nodes)) = {_canonicalize_cycle(c) : c \in exhaustive}
            /\ {Range(rings[i].member_accounts) : i \in DOMAIN rings}
                  = {Range(c) : c \in exhaustive}

(***************************************************************************)
(* C21: on every graph, dense and cyclic ones and graphs with self-loops   *)
(* included, the stack loop of _dfs_cycles and the stack loop of           *)
(* _find_shell_chains each eventually empty their stack, and run           *)
(* eventually returns a report.                                            *)
(***************************************************************************)
C21_SearchesTerminate ==
    /\ (search.phase = "dfs") ~> (search.phase = "idle")
    /\ (search.phase = "shell") ~> (search.phase = "idle")
    /\ (search.stack # <<>>) ~> (search.stack = <<>>)
    /\ <>(pc = "done" /\ report # <<>>)

\* both searches ran on a graph where every pair of the first SearchNodes
\* accounts transacts in both directions and an account sends to itself; the
\* fallback search found cycles and the chain search registered rings
C21_Witness ==
    /\ pc = "done"
    /\ \A a, b \in 1..SearchNodes : a # b => has_edge(G, a, b)
    /\ \E a \in 1..SearchNodes : has_edge(G, a, a)
    /\ \E i \in DOMAIN registered : registered[i].pattern_type = "cycle"
    /\ \E i \in DOMAIN registered : registered[i].pattern_type = "layering"

(***************************************************************************)
(* C22: every ring registered by the shell-chain detector is a simple      *)
(* directed path of 4 to 7 distinct accounts that starts at an account     *)
(* whose transaction count is not in [2, 3] and whose interior has at      *)
(* least 2 accounts, at least 60% of them shell candidates; every such     *)
(* path is registered unless a layering ring with the same set of members  *)
(* was registered before, and no two layering rings have the same set of   *)
(* members.                                                                *)
(***************************************************************************)
C22_LayeringRingsAreShellChains ==
    pc = "detect_high_velocity" =>
        LET shells == {n \in Range(G.nodes) : G.data[n].tx_count \in 2..3}
            Ext(P) == UNION {{Append(p, n) : n \in Range(G.succ[p[Len(p)]]) \ Range(p)} : p \in P}
            P1 == {<<n>> : n \in Range(G.nodes) \ shells}
            P2 == Ext(P1)
            P3 == Ext(P2)
            P4 == Ext(P3)
            P5 == Ext(P4)
            P6 == Ext(P5)
            P7 == Ext(P6)
            inner(p) == {i \in 2..(Len(p) - 1) : p[i] \in shells}
            chains == {p \in P4 \cup P5 \cup P6 \cup P7 :
                          10 * Cardinality(inner(p)) >= 6 * (Len(p) - 2)}
            layering == {i \in DOMAIN rings : rings[i].pattern_type = "layering"}
        IN  /\ \A i \in layering : rings[i].member_accounts \in chains
            /\ \A p \in chains : \E i \in layering : Range(rings[i].member_accounts) = Range(p)
            /\ \A i, j \in layering :
                  Range(rings[i].member_accounts) = Range(rings[j].member_accounts) => i = j

\* a chain of 7 accounts was registered and the account that its last account
\* sends to, which is not in the chain, is in no ring
C22_Witness ==
    /\ pc = "detect_high_velocity"
    /\ \E i \in DOMAIN rings :
          /\ rings[i].pattern_type = "layering"
          /\ Len(rings[i].member_accounts) = 7
          /\ \E n \in Range(G.succ[rings[i].member_accounts[7]]) :
                \A k \in DOMAIN rings : n \notin Range(rings[k].member_accounts)

(***************************************************************************)
(* C23: in the final report, every account that is in the member list of a *)
(* surviving ring and is not a hub has an entry in suspicious_accounts,    *)
(* with a non-empty detected_patterns list and the ring_id of the ring     *)
(* that lists it.                                                          *)
(***************************************************************************)
C23_RingMembersAreListed ==
    pc = "done" =>
        \A r \in Range(report.fraud_rings) :
           \A a \in Range(r.member_accounts) :
              ~_is_merchant_or_payroll(G, a) =>
                 /\ Cardinality({i \in DOMAIN report.suspicious_accounts :
                                   report.suspicious_accounts[i].account_id = a}) = 1
                 /\ \A e \in Range(report.suspicious_accounts) :
                       e.account_id = a =>
                          /\ e.detected_patterns # <<>>
                          /\ e.ring_id = r.ring_id

\* a surviving ring lists a hub, which has no entry, next to accounts that
\* have one, and an account of the ring is also listed by a ring registered
\* later
C23_Witness ==
    /\ pc = "done"
    /\ \E r \in Range(report.fraud_rings) :
          /\ \E a \in Range(r.member_accounts) :
                /\ _is_merchant_or_payroll(G, a)
                /\ \A e \in Range(report.suspicious_accounts) : e.account_id # a
          /\ \E a \in Range(r.member_accounts) :
                /\ ~_is_merchant_or_payroll(G, a)
                /\ \E i \in DOMAIN registered :
                      /\ registered[i].ring_id # r.ring_id
                      /\ a \in Range(registered[i].member_accounts)

====
